---- MODULE Spec2Model ----
(***************************************************************************)
(* Model of eshop/ebag/views.py: the session cart, the cart JSON endpoint  *)
(* (AJAXSessionCart.post) and the page views guarded by the two decorators *)
(* of GeneralContextMixin.                                                 *)
(*                                                                         *)
(* One client session is modelled.  Every request is one atomic action:    *)
(* the view runs on the session dict loaded from the session store, and    *)
(* the session middleware then writes the dict back when it was flagged    *)
(* modified.  Explicit request.session.save() calls write it back at once. *)
(*                                                                         *)
(* Strings are sequences of one-character strings.  Dicts are functions;   *)
(* the session is a function whose domain is {} or {"cart"}.               *)
(***************************************************************************)
EXTENDS Integers, Sequences, FiniteSets, TLC

VARIABLES
    session,        \* the stored session dict of the client
    request,        \* the last request handled
    pre,            \* the stored session dict before the last request
    response        \* the response to the last request

vars == <<session, request, pre, response>>

(***************************************************************************)
(* Bounds                                                                  *)
(***************************************************************************)
\* longest "items" list of a cart POST
MaxItems == 2

(***************************************************************************)
(* Python strings and conversions                                          *)
(***************************************************************************)
DecimalChars == {"0", "1", "2", "3", "4", "5", "6", "7", "8", "9"}

DigitValue(c) ==
    CASE c = "0" -> 0 [] c = "1" -> 1 [] c = "2" -> 2 [] c = "3" -> 3
      [] c = "4" -> 4 [] c = "5" -> 5 [] c = "6" -> 6 [] c = "7" -> 7
      [] c = "8" -> 8 [] c = "9" -> 9

DigitChar(d) ==
    CASE d = 0 -> "0" [] d = 1 -> "1" [] d = 2 -> "2" [] d = 3 -> "3"
      [] d = 4 -> "4" [] d = 5 -> "5" [] d = 6 -> "6" [] d = 7 -> "7"
      [] d = 8 -> "8" [] d = 9 -> "9"

\* str.isdigit() on the ASCII strings of the model: non-empty and every
\* character a decimal digit
isdigit(s) ==
    /\ Len(s) > 0
    /\ \A i \in 1..Len(s) : s[i] \in DecimalChars

\* the value of the first n characters of a decimal string
RECURSIVE IntOfPrefix(_, _)
IntOfPrefix(s, n) ==
    IF n = 0 THEN 0
    ELSE 10 * IntOfPrefix(s, n - 1) + DigitValue(s[n])

\* int(s) of a decimal string (float(s) too: the prices are whole numbers)
IntOf(s) == IntOfPrefix(s, Len(s))

\* str(n) of a non-negative integer
RECURSIVE StrOf(_)
StrOf(n) ==
    IF n < 10 THEN <<DigitChar(n)>>
    ELSE Append(StrOf(n \div 10), DigitChar(n % 10))

\* Python's "sub in s" on strings
Contains(s, sub) ==
    \E i \in 0..(Len(s) - Len(sub)) :
        \A j \in 1..Len(sub) : s[i + j] = sub[j]

(***************************************************************************)
(* Data outside the views: the Product table, the settings, the headers    *)
(***************************************************************************)
\* rows of the Product table (the fields the views read)
Products == { [id |-> 1, price |-> 3], [id |-> 2, price |-> 5] }

ERR_MSG_INVALID_PARAMS == "ERR_MSG_INVALID_PARAMS"
ERR_MSG_NO_PRODUCT == "ERR_MSG_NO_PRODUCT"

\* A header value or a JSON value is a record: kind "str" carries a string,
\* kind "none" is Python's None, kind "number" a JSON number (its literal).
Str(s) == [kind |-> "str", s |-> s]
None == [kind |-> "none", s |-> <<>>]
Number(s) == [kind |-> "number", s |-> s]

\* str(v)
PyStr(v) == IF v.kind = "none" THEN <<"N", "o", "n", "e">> ELSE v.s

CartPath == <<"/", "c", "a", "r", "t", "/">>
CheckoutPath == <<"/", "c", "h", "e", "c", "k", "o", "u", "t", "/">>

\* values of the Referer header tried: absent, the cart page, the checkout
\* page, the home page, and a path that only starts like the cart page
Referers ==
    { None,
      Str(CartPath),
      Str(CheckoutPath),
      Str(<<"/">>),
      Str(<<"/", "c", "a", "r", "t">>) }

Item(product_id, quantity) == [product_id |-> product_id, quantity |-> quantity]

\* the items a POST body is built from
Items ==
    { Item(Str(<<"1">>), Str(<<"1">>)),
      Item(Str(<<"1">>), Str(<<"2">>)),
      Item(Str(<<"2">>), Str(<<"2">>)),
      Item(Str(<<"1">>), Str(<<"0">>)),
      Item(Str(<<"9">>), Str(<<"1">>)),
      Item(Str(<<"9">>), Str(<<"0">>)),
      Item(Str(<<"1">>), Str(<<"-", "1">>)),
      Item(Number(<<"1">>), Str(<<"1">>)) }

RECURSIVE SeqsUpTo(_, _)
SeqsUpTo(S, n) ==
    IF n = 0 THEN { <<>> }
    ELSE LET shorter == SeqsUpTo(S, n - 1)
         IN  shorter \cup { Append(q, x) : q \in shorter, x \in S }

Batches == SeqsUpTo(Items, MaxItems)

(***************************************************************************)
(* Dicts and the session                                                   *)
(***************************************************************************)
EmptyDict == [k \in {} |-> {}]

DictSet(d, key, value) ==
    [k \in DOMAIN d \cup {key} |-> IF k = key THEN value ELSE d[k]]

DictDel(d, key) == [k \in DOMAIN d \ {key} |-> d[k]]

\* the outcome of running a view: its response, the session dict in memory,
\* the session's modified flag, and the store as explicit save() calls left it
Outcome(resp, mem, modified, stored) ==
    [response |-> resp, mem |-> mem, modified |-> modified, stored |-> stored]

Redirect(to) == [kind |-> "redirect", to |-> to]
Render(template, ctx) == [kind |-> "render", template |-> template, ctx |-> ctx]

\* the setting the session middleware reads; the views leave it at the
\* framework's default
SESSION_SAVE_EVERY_REQUEST == FALSE

\* SessionMiddleware around every view: the in-memory dict is written back
\* when it was flagged modified (or on every request when so set)
process_response(out) ==
    IF out.modified \/ SESSION_SAVE_EVERY_REQUEST
    THEN out.mem
    ELSE out.stored

(***************************************************************************)
(* GeneralContextMixin                                                     *)
(***************************************************************************)
\* the values of a dict as a list (in one fixed order)
RECURSIVE DictValues(_)
DictValues(d) ==
    IF DOMAIN d = {} THEN <<>>
    ELSE LET k == CHOOSE x \in DOMAIN d : TRUE
         IN  <<d[k]>> \o DictValues(DictDel(d, k))

\* mutant of SumLineTotals: the quantity is left out of the product
RECURSIVE SumLineTotals_prices_only(_)
SumLineTotals_prices_only(items) ==
    IF items = <<>> THEN 0
    ELSE IntOf(Head(items).product_data.price)
         + SumLineTotals_prices_only(Tail(items))

\* sum([int(item["quantity"]) * float(item["product_data"]["price"]) ...])
RECURSIVE SumLineTotals(_)
SumLineTotals(items) ==
    IF items = <<>> THEN 0
    ELSE IntOf(Head(items).quantity) * IntOf(Head(items).product_data.price)
         + SumLineTotals(Tail(items))

\* common_data: the cart list, cart_total (only with a "cart" key) and
\* items_in_cart of the context
common_data(sess) ==
    IF "cart" \in DOMAIN sess
    THEN LET cart == DictValues(sess["cart"])
         IN  [cart |-> cart,
              cart_total |-> SumLineTotals(cart),
              items_in_cart |-> Len(cart)]
    ELSE [cart |-> <<>>, items_in_cart |-> Len(<<>>)]

\* mutant of referrer_rejected: "r in referrer" for "r not in referrer"
referrer_rejected_not_dropped(valid_referrers, req) ==
    LET referrer == PyStr(req.referer)
    IN  \A r \in valid_referrers : Contains(referrer, r)

\* the test of validate_referrer: no valid referrer occurs in the Referer
referrer_rejected(valid_referrers, req) ==
    LET referrer == PyStr(req.referer)
    IN  \A r \in valid_referrers : ~Contains(referrer, r)

\* the decorator; function is the outcome of the decorated view, which is run
\* only when the test lets the request through
validate_referrer(valid_referrers, function, req, sess) ==
    IF referrer_rejected(valid_referrers, req)
    THEN Outcome(Redirect("home_view"), sess, FALSE, sess)
    ELSE function

\* the test of verify_cart_not_empty
cart_missing(sess) == "cart" \notin DOMAIN sess

verify_cart_not_empty(function, req, sess) ==
    IF cart_missing(sess)
    THEN Outcome(Redirect("home_view"), sess, FALSE, sess)
    ELSE function

(***************************************************************************)
(* The page views                                                          *)
(***************************************************************************)
home_view(req, sess) ==
    Outcome(Render("home.html", common_data(sess)), sess, FALSE, sess)

cart_view_inner(req, sess) ==
    Outcome(Render("cart.html", common_data(sess)), sess, FALSE, sess)

cart_view(req, sess) ==
    verify_cart_not_empty(cart_view_inner(req, sess), req, sess)

thank_you_view_inner(req, sess) ==
    Outcome(Render("thank-you.html", common_data(sess)), sess, FALSE, sess)

thank_you_view(req, sess) ==
    validate_referrer({CheckoutPath}, thank_you_view_inner(req, sess),
                      req, sess)

\* mutant of checkout_view_inner: the redirect without the del
checkout_view_inner_keeps_cart(req, sess) ==
    IF req.method = "POST" /\ req.form_valid
    THEN Outcome(Redirect("thank_you_view"), sess, FALSE, sess)
    ELSE Outcome(Render("checkout.html", common_data(sess)), sess, FALSE, sess)

\* the body of checkout_view; req.form_valid is CheckoutForm(...).is_valid()
checkout_view_inner(req, sess) ==
    IF req.method = "POST" /\ req.form_valid
    THEN LET mem == DictDel(sess, "cart")
         IN  Outcome(Redirect("thank_you_view"), mem, TRUE, mem)
    ELSE Outcome(Render("checkout.html", common_data(sess)), sess, FALSE, sess)

checkout_view_referred(req, sess) ==
    validate_referrer({CartPath, CheckoutPath}, checkout_view_inner(req, sess),
                      req, sess)

checkout_view(req, sess) ==
    verify_cart_not_empty(checkout_view_referred(req, sess), req, sess)

(***************************************************************************)
(* AJAXSessionCart                                                         *)
(***************************************************************************)
Json(success, err_msg, items_in_cart, cart) ==
    [kind |-> "json", success |-> success, err_msg |-> err_msg,
     items_in_cart |-> items_in_cart, cart |-> cart]

\* set_init_vars: the session gets an empty "cart" when it has none (an
\* assignment, which flags the session modified)
set_init_vars(sess) ==
    IF "cart" \notin DOMAIN sess
    THEN [mem |-> DictSet(sess, "cart", EmptyDict), modified |-> TRUE]
    ELSE [mem |-> sess, modified |-> FALSE]

\* mutant of is_valid_ajax_input: all() for any() in the isinstance test
is_valid_ajax_input_all(fields) ==
    IF \A i \in 1..Len(fields) : fields[i].kind # "str" THEN FALSE
    ELSE IF \E i \in 1..Len(fields) : ~isdigit(fields[i].s) THEN FALSE
    ELSE TRUE

is_valid_ajax_input(fields) ==
    IF \E i \in 1..Len(fields) : fields[i].kind # "str" THEN FALSE
    ELSE IF \E i \in 1..Len(fields) : ~isdigit(fields[i].s) THEN FALSE
    ELSE TRUE

ProductsWithId(id) == { p \in Products : p.id = id }

\* Product.objects.filter(id=product_id)
ProductFilter(product_id) == ProductsWithId(IntOf(product_id))

delete_product_from_cart(cart, product_id) ==
    IF product_id \in DOMAIN cart THEN DictDel(cart, product_id) ELSE cart

\* mutant of update_cart_with_product: setdefault, an entry already in the
\* cart is kept
update_cart_with_product_setdefault(cart, product_id, quantity, product) ==
    LET row == CHOOSE p \in product : TRUE
        product_data == [id |-> StrOf(row.id), price |-> StrOf(row.price)]
    IN  IF product_id \in DOMAIN cart THEN cart
        ELSE DictSet(cart, product_id,
                     [quantity |-> quantity, product_data |-> product_data])

update_cart_with_product(cart, product_id, quantity, product) ==
    LET row == CHOOSE p \in product : TRUE
        product_data == [id |-> StrOf(row.id), price |-> StrOf(row.price)]
    IN  DictSet(cart, product_id,
                [quantity |-> quantity, product_data |-> product_data])

\* the state of the loop of post: it is running or ran to the end ("done")
\* or has returned an error message ("error"); cart is the dict
\* session["cart"], which the loop changes in place
LoopState(status, err_msg, cart) ==
    [status |-> status, err_msg |-> err_msg, cart |-> cart]

\* mutant of ProcessItem: a missing product returns the other message
ProcessItem_wrong_message(loop, item) ==
    IF loop.status # "done" THEN loop
    ELSE IF ~is_valid_ajax_input(<<item.product_id, item.quantity>>)
    THEN LoopState("error", ERR_MSG_INVALID_PARAMS, loop.cart)
    ELSE IF IntOf(item.quantity.s) > 0
    THEN IF ProductFilter(item.product_id.s) = {}
         THEN LoopState("error", ERR_MSG_INVALID_PARAMS, loop.cart)
         ELSE LoopState("done", "",
                        update_cart_with_product(
                            loop.cart, item.product_id.s, item.quantity.s,
                            ProductFilter(item.product_id.s)))
    ELSE LoopState("done", "",
                   delete_product_from_cart(loop.cart, item.product_id.s))

\* one pass of the loop body, lines 220-236 (none once the loop was left)
ProcessItem(loop, item) ==
    IF loop.status # "done" THEN loop
    ELSE IF ~is_valid_ajax_input(<<item.product_id, item.quantity>>)
    THEN LoopState("error", ERR_MSG_INVALID_PARAMS, loop.cart)
    ELSE IF IntOf(item.quantity.s) > 0
    THEN IF ProductFilter(item.product_id.s) = {}
         THEN LoopState("error", ERR_MSG_NO_PRODUCT, loop.cart)
         ELSE LoopState("done", "",
                        update_cart_with_product(
                            loop.cart, item.product_id.s, item.quantity.s,
                            ProductFilter(item.product_id.s)))
    ELSE LoopState("done", "",
                   delete_product_from_cart(loop.cart, item.product_id.s))

\* the loop of post over the first n items
RECURSIVE ProcessItems(_, _, _)
ProcessItems(cart, items, n) ==
    IF n = 0 THEN LoopState("done", "", cart)
    ELSE ProcessItem(ProcessItems(cart, items, n - 1), items[n])

\* set_cart: drops the "cart" key and saves when items_in_cart < 1; self.cart
\* is then the session cart, or {} when the key is gone
set_cart(mem, items_in_cart, stored) ==
    LET emptied == items_in_cart < 1
        mem2 == IF emptied THEN DictDel(mem, "cart") ELSE mem
    IN  [mem |-> mem2,
         modified |-> emptied,
         stored |-> IF emptied THEN mem2 ELSE stored,
         cart |-> IF "cart" \in DOMAIN mem2 THEN mem2["cart"] ELSE EmptyDict]

\* return_error: success 0 and the message; items_in_cart and cart are what
\* set_init_vars left in self (cart is the very dict the loop changed)
return_error(error, self_items_in_cart, self_cart) ==
    Json(0, error, self_items_in_cart, self_cart)

\* the end of post, given what set_init_vars and the loop left
post_return(sess, init, loop, mem) ==
    CASE loop.status = "error" ->
           Outcome(return_error(loop.err_msg, 0, mem["cart"]),
                   mem, init.modified, sess)
      [] loop.status = "done" ->
           LET items_in_cart == Cardinality(DOMAIN mem["cart"])
               sc == set_cart(mem, items_in_cart, mem)
           IN  Outcome(Json(1, "", items_in_cart, sc.cart),
                       sc.mem, init.modified \/ sc.modified, sc.stored)

post_loop(sess, init, loop) ==
    post_return(sess, init, loop, DictSet(init.mem, "cart", loop.cart))

post_items(req, sess, init) ==
    post_loop(sess, init,
              ProcessItems(init.mem["cart"], req.items, Len(req.items)))

post(req, sess) == post_items(req, sess, set_init_vars(sess))

(***************************************************************************)
(* Requests                                                                *)
(***************************************************************************)
Init ==
    /\ session = EmptyDict
    /\ request = [view |-> "none"]
    /\ pre = EmptyDict
    /\ response = [kind |-> "none"]

\* one request: the view runs on the stored session, the middleware stores
\* what the view left
Handle(req, out) ==
    /\ request' = req
    /\ pre' = session
    /\ response' = out.response
    /\ session' = process_response(out)

HomeView ==
    LET req == [view |-> "home_view", method |-> "GET"]
    IN  Handle(req, home_view(req, session))

CartView ==
    LET req == [view |-> "cart_view", method |-> "GET"]
    IN  Handle(req, cart_view(req, session))

ThankYouView ==
    \E referer \in Referers :
        LET req == [view |-> "thank_you_view", method |-> "GET",
                    referer |-> referer]
        IN  Handle(req, thank_you_view(req, session))

CheckoutGet ==
    \E referer \in Referers :
        LET req == [view |-> "checkout_view", method |-> "GET",
                    referer |-> referer]
        IN  Handle(req, checkout_view(req, session))

CheckoutPost ==
    \E referer \in Referers, form_valid \in BOOLEAN :
        LET req == [view |-> "checkout_view", method |-> "POST",
                    referer |-> referer, form_valid |-> form_valid]
        IN  Handle(req, checkout_view(req, session))

CartPost ==
    \E items \in Batches :
        LET req == [view |-> "AJAXSessionCart", method |-> "POST",
                    items |-> items]
        IN  Handle(req, post(req, session))

Next ==
    \/ HomeView
    \/ CartView
    \/ ThankYouView
    \/ CheckoutGet
    \/ CheckoutPost
    \/ CartPost

Spec == Init /\ [][Next]_vars

(***************************************************************************)
(* Properties                                                              *)
(***************************************************************************)
\* the cart of a session dict, {} when it has no "cart" key
CartOf(sess) == IF "cart" \in DOMAIN sess THEN sess["cart"] ELSE EmptyDict

IsCartPost == request.view = "AJAXSessionCart"

IsCheckout == request.view = "checkout_view"

\* the Referer of the last request is present and contains the path
RefererHas(path) ==
    /\ request.referer.kind = "str"
    /\ Contains(request.referer.s, path)

RefererAllowed == RefererHas(CartPath) \/ RefererHas(CheckoutPath)

\* a JSON value that is a non-empty string of decimal digits
IsDigitString(v) ==
    /\ v.kind = "str"
    /\ v.s # <<>>
    /\ \A i \in 1..Len(v.s) : v.s[i] \in DecimalChars

DigitItem(item) ==
    IsDigitString(item.product_id) /\ IsDigitString(item.quantity)

ProductExists(product_id) == \E p \in Products : p.id = IntOf(product_id)

\* a digit-string item that names an existing product
ValidItem(item) == DigitItem(item) /\ ProductExists(item.product_id.s)

ErrorResponse(msg) ==
    /\ response.kind = "json"
    /\ response.success = 0
    /\ response.err_msg = msg

\* C1: the session never holds a "cart" key whose mapping has no entries.
CartKeyNeverEmpty ==
    "cart" \in DOMAIN session => DOMAIN session["cart"] # {}

\* the last request was a checkout POST that passed both gates
PassedCheckoutGates ==
    /\ IsCheckout
    /\ request.method = "POST"
    /\ "cart" \in DOMAIN pre
    /\ RefererAllowed

CartClearedAndThanked ==
    /\ "cart" \notin DOMAIN session
    /\ response = Redirect("thank_you_view")

\* C2 as stated: every checkout POST that passes both gates removes the
\* "cart" key and redirects to the thank-you page.
CheckoutPostAlwaysClears == PassedCheckoutGates => CartClearedAndThanked

\* C2 amended: a checkout POST that passes both gates removes the "cart" key
\* and redirects to the thank-you page when its form validates; when the form
\* does not validate the checkout page is rendered and the session is as before.
CheckoutValidPostClears ==
    PassedCheckoutGates =>
        IF request.form_valid
        THEN CartClearedAndThanked
        ELSE /\ response.kind = "render"
             /\ response.template = "checkout.html"
             /\ session = pre

CheckoutValidPostSeen ==
    /\ PassedCheckoutGates
    /\ request.form_valid
    /\ DOMAIN pre["cart"] # {}
    /\ response.kind = "redirect"

\* C3: with no items in the session cart (no "cart" key, or an empty
\* mapping), cart_view and checkout_view answer with a redirect home.
EmptyCartRedirectsHome ==
    (/\ request.view \in {"cart_view", "checkout_view"}
     /\ DOMAIN CartOf(pre) = {})
        => response = Redirect("home_view")

\* item i of the posted batch is a digit-string item naming no product, and
\* the items before it are valid
UnknownProductAt(i) ==
    /\ DigitItem(request.items[i])
    /\ ~ProductExists(request.items[i].product_id.s)
    /\ \A j \in 1..(i - 1) : ValidItem(request.items[j])

\* C4 as stated: a digit-string item naming no product, after valid items,
\* gives the no-product error, whatever its digit-string quantity.
UnknownProductAlwaysError ==
    IsCartPost =>
        \A i \in 1..Len(request.items) :
            UnknownProductAt(i) => ErrorResponse(ERR_MSG_NO_PRODUCT)

\* C4 amended: a digit-string item naming no product, after valid items, gives
\* the no-product error when the integer value of its quantity is above 0.
UnknownProductPositiveError ==
    IsCartPost =>
        \A i \in 1..Len(request.items) :
            (UnknownProductAt(i) /\ IntOf(request.items[i].quantity.s) > 0)
                => ErrorResponse(ERR_MSG_NO_PRODUCT)

UnknownProductPositiveSeen ==
    /\ IsCartPost
    /\ Len(request.items) = 2
    /\ UnknownProductAt(2)
    /\ IntOf(request.items[2].quantity.s) > 0
    /\ ErrorResponse(ERR_MSG_NO_PRODUCT)

\* item i of the posted batch is the first that is not a digit-string item
FirstInvalidAt(i) ==
    /\ ~DigitItem(request.items[i])
    /\ \A j \in 1..(i - 1) : DigitItem(request.items[j])

\* the items before item i pass the loop: each has the quantity value 0 or
\* names an existing product
EarlierPass(i) ==
    \A j \in 1..(i - 1) :
        \/ IntOf(request.items[j].quantity.s) = 0
        \/ ProductExists(request.items[j].product_id.s)

BadReferrerCheckoutRedirects ==
    (IsCheckout /\ ~RefererAllowed) =>
        /\ response = Redirect("home_view")
        /\ session = pre

BadReferrerCheckoutSeen ==
    /\ IsCheckout
    /\ ~RefererAllowed
    /\ request.method = "POST"
    /\ request.form_valid
    /\ DOMAIN CartOf(pre) # {}
    /\ response = Redirect("home_view")

\* the sum of quantity times snapshot price over the entries of a cart
RECURSIVE SumOverEntries(_, _)
SumOverEntries(cart, keys) ==
    IF keys = {} THEN 0
    ELSE LET k == CHOOSE x \in keys : TRUE
         IN  IntOf(cart[k].quantity) * IntOf(cart[k].product_data.price)
             + SumOverEntries(cart, keys \ {k})

\* C7: the context of a rendered page has cart_total equal to the sum of
\* quantity times snapshot price over the cart entries and items_in_cart equal
\* to the number of entries.
CartTotalIsSum ==
    response.kind = "render" =>
        IF "cart" \in DOMAIN session
        THEN /\ "cart_total" \in DOMAIN response.ctx
             /\ response.ctx.cart_total
                    = SumOverEntries(session["cart"], DOMAIN session["cart"])
             /\ response.ctx.items_in_cart
                    = Cardinality(DOMAIN session["cart"])
        ELSE response.ctx.items_in_cart = 0

CartTotalSeen ==
    /\ response.kind = "render"
    /\ "cart" \in DOMAIN session
    /\ Cardinality(DOMAIN session["cart"]) = 2
    /\ response.ctx.cart_total > 0

\* the product ids the batch names
NamedIds == { request.items[i].product_id.s : i \in 1..Len(request.items) }

\* the last item of the batch naming the product id
LastNaming(product_id) ==
    LET i == CHOOSE n \in 1..Len(request.items) :
                 /\ request.items[n].product_id.s = product_id
                 /\ \A m \in (n + 1)..Len(request.items) :
                        request.items[m].product_id.s # product_id
    IN  request.items[i]

\* C8: after a cart POST with success 1 the cart holds, for each id named, the
\* quantity of the last item naming it (no entry when that quantity is 0), and
\* the other entries are as before.
SuccessfulPostApplied ==
    (IsCartPost /\ response.success = 1) =>
        LET before == CartOf(pre)
            after == CartOf(session)
        IN  /\ \A id \in NamedIds :
                   IF IntOf(LastNaming(id).quantity.s) > 0
                   THEN /\ id \in DOMAIN after
                        /\ after[id].quantity = LastNaming(id).quantity.s
                   ELSE id \notin DOMAIN after
            /\ \A id \in (DOMAIN before \cup DOMAIN after) \ NamedIds :
                   /\ id \in DOMAIN before
                   /\ id \in DOMAIN after
                   /\ after[id] = before[id]

SuccessfulPostSeen ==
    /\ IsCartPost
    /\ response.success = 1
    /\ Len(request.items) = 2
    /\ request.items[1].product_id = request.items[2].product_id
    /\ request.items[1].quantity # request.items[2].quantity
    /\ IntOf(request.items[2].quantity.s) > 0
    /\ request.items[1].product_id.s \in DOMAIN CartOf(pre)
    /\ DOMAIN CartOf(pre) \ NamedIds # {}

\* C9: a cart POST with success 0 leaves the session as it was.
FailedPostLeavesSession ==
    (IsCartPost /\ response.success = 0) => session = pre

\* C10: in a JSON response items_in_cart is the number of entries of its cart
\* field, and the cart field is the session cart after the request.
JsonCountsCart ==
    IsCartPost =>
        /\ response.items_in_cart = Cardinality(DOMAIN response.cart)
        /\ response.cart = CartOf(session)

====
